---- MODULE Spec2Model ----
(***************************************************************************)
(* NoobBook: the business report agent loop, the three tool executors      *)
(* (business report, email, presentation) and the Excalidraw element       *)
(* conversion.                                                             *)
(*                                                                         *)
(* Python dicts are records (a key is a field; a missing key is a missing  *)
(* field), lists are sequences, None is the record None.  Formatted        *)
(* messages are records holding a text tag and the values formatted into   *)
(* it.  Timestamps are the constant Now.                                   *)
(***************************************************************************)
EXTENDS Integers, Sequences, FiniteSets, Bags, TLC

(***************************************************************************)
(* Bounds of the model.                                                    *)
(***************************************************************************)
\* content blocks in one model response
MaxBlocks == 2
\* successful csv analyses in one run (caps collected_analyses)
MaxAnalyses == 2
\* images generated for one email (caps generated_images)
MaxImages == 2
\* create_slide calls for one presentation (caps slides_info)
MaxSlides == 2
\* elements in one wireframe handed to convert_to_excalidraw_elements
MaxElements == 2
\* fragments joined into one report or one email
MaxFragments == 3

(***************************************************************************)
(* Python helpers.                                                         *)
(***************************************************************************)
None == [none |-> TRUE]

Now == "<now>"

\* d.get(k, default)
Get(d, k, default) == IF k \in DOMAIN d THEN d[k] ELSE default

\* {**d, **kw}
Merge(d, kw) ==
  [k \in DOMAIN d \cup DOMAIN kw |-> IF k \in DOMAIN kw THEN kw[k] ELSE d[k]]

\* a dict with no key
EmptyDict == <<>>

\* x or y, for strings
StrOr(x, y) == IF x = "" THEN y ELSE x

RECURSIVE SeqsUpTo(_, _)
\* the sequences over S of length at most n
SeqsUpTo(S, n) ==
  IF n = 0 THEN {<<>>}
  ELSE LET shorter == SeqsUpTo(S, n - 1)
       IN  shorter \cup {Append(s, x) : s \in {t \in shorter : Len(t) = n - 1}, x \in S}

RECURSIVE Digits(_)
\* the decimal digits of n >= 0
Digits(n) == IF n < 10 THEN <<n>> ELSE Append(Digits(n \div 10), n % 10)

\* A text that a replacement works on is kept as the sequence of its pieces:
\* a quote, a bracket, a digit, a word, a file name, each piece a string.
\* str(n) as a text
Str(n) == [i \in DOMAIN Digits(n) |-> ToString(Digits(n)[i])]

RECURSIVE StrReplace(_, _, _)
\* s.replace(old, new): every occurrence of old from left to right, none
\* overlapping another
StrReplace(s, old, new) ==
  IF Len(s) < Len(old) THEN s
  ELSE IF SubSeq(s, 1, Len(old)) = old
  THEN new \o StrReplace(SubSeq(s, Len(old) + 1, Len(s)), old, new)
  ELSE <<Head(s)>> \o StrReplace(Tail(s), old, new)

RECURSIVE Flatten(_)
\* the texts of a sequence, joined
Flatten(texts) == IF texts = <<>> THEN <<>> ELSE Head(texts) \o Flatten(Tail(texts))

(***************************************************************************)
(* The job store (studio_index_service) and the file storage layer.        *)
(***************************************************************************)
PROJECT_ID == "p1"

JobIds == {"j1", "j2"}

\* the job record the studio route creates before the agent runs
NewJob(id) == [id |-> id, status |-> "pending"]

\* studio_index_service.update_*_job(project_id, job_id, **kwargs)
UpdateJob(store, update) ==
  [store EXCEPT ![update.job_id] = Merge(@, update.kwargs)]

RECURSIVE ApplyUpdates(_, _)
\* the job store after the updates of one tool call, in order
ApplyUpdates(store, updates) ==
  IF updates = <<>> THEN store
  ELSE ApplyUpdates(UpdateJob(store, Head(updates)), Tail(updates))

\* open(path, "w").write(content)
NoWrites == <<>>

WriteFile(path, content) == (path :> content)

(***************************************************************************)
(* BusinessReportToolExecutor                                              *)
(***************************************************************************)
BIZ_TERMINATION_TOOL == "write_business_report"

BizTools ==
  {"plan_business_report", "analyze_csv_data", "search_source_content",
   "write_business_report"}

\* what a handler hands back to execute_tool: its return value, the job
\* updates it made, the (mutated in place) context lists, the files written
BizReturn(ret, updates, charts, analyses, writes) ==
  [ret |-> ret, updates |-> updates, collected_charts |-> charts,
   collected_analyses |-> analyses, writes |-> writes]

ExecutePlanReport(project_id, job_id, tool_input, context) ==
  LET title == Get(tool_input, "title", "Business Report")
      sections == Get(tool_input, "sections", <<>>)
  IN  BizReturn(
        [text |-> "Report plan saved", title |-> title, sections |-> Len(sections)],
        << [job_id |-> job_id,
            kwargs |-> [title |-> title, sections |-> sections,
                        status_message |-> "Report planned, analyzing data..."]] >>,
        context.collected_charts, context.collected_analyses, NoWrites)

\* chart_info of one chart path
ChartInfo(project_id, chart_path, section_context) ==
  [filename |-> chart_path,
   title |-> IF section_context # "" THEN "Chart for " \o section_context
             ELSE "Data Chart",
   section |-> section_context,
   url |-> <<"/api/v1/projects/" \o project_id \o "/ai-images/", chart_path>>]

\* csv: what csv_analyzer_agent.run does: [raises |-> TRUE], or
\* [raises |-> FALSE, result |-> its result dict]
ExecuteAnalyzeCsv(project_id, job_id, tool_input, context, csv) ==
  LET analysis_query == Get(tool_input, "analysis_query", "")
      section_context == Get(tool_input, "section_context", "")
      first == [job_id |-> job_id,
                kwargs |-> [status_message |->
                  [text |-> "Analyzing data for",
                   what |-> StrOr(section_context, "report")]]]
      charts == context.collected_charts
      analyses == context.collected_analyses
  IN  IF csv.raises
      THEN BizReturn([text |-> "Error during CSV analysis"],
                     <<first>>, charts, analyses, NoWrites)
      ELSE IF ~Get(csv.result, "success", FALSE)
      THEN BizReturn([text |-> "Error analyzing data",
                      error |-> Get(csv.result, "error", "Analysis failed")],
                     <<first>>, charts, analyses, NoWrites)
      ELSE
        LET summary == Get(csv.result, "summary", "No summary available")
            chart_paths == Get(csv.result, "image_paths", <<>>)
            analysis_info == [query |-> analysis_query, summary |-> summary,
                              chart_paths |-> chart_paths,
                              section_context |-> section_context]
            analyses2 == Append(analyses, analysis_info)
            charts2 == charts \o
              [i \in 1..Len(chart_paths) |->
                 ChartInfo(project_id, chart_paths[i], section_context)]
        IN  BizReturn(
              [text |-> "Analysis complete",
               what |-> StrOr(section_context, "data analysis"),
               summary |-> summary, charts |-> chart_paths],
              << first,
                 [job_id |-> job_id,
                  kwargs |-> [analyses |-> analyses2, charts |-> charts2]] >>,
              charts2, analyses2, NoWrites)

\* the longest source content returned whole
SEARCH_MAX_LENGTH == 3000

\* source: what the processed source file is: "missing", "unreadable" (open
\* or read raises), or [length |-> its length]
ExecuteSearchContent(project_id, job_id, tool_input, context, source) ==
  LET source_id == Get(tool_input, "source_id", "")
      section_context == Get(tool_input, "section_context", "")
      ret ==
        IF source = [state |-> "unreadable"]
        THEN [text |-> "Error searching source content"]
        ELSE IF source = [state |-> "missing"]
        THEN [text |-> "Source content not found", source_id |-> source_id]
        ELSE [text |-> "Content from source",
              what |-> StrOr(section_context, "context"),
              length |-> IF source.length > SEARCH_MAX_LENGTH
                         THEN SEARCH_MAX_LENGTH ELSE source.length,
              truncated |-> source.length > SEARCH_MAX_LENGTH]
  IN  BizReturn(ret, <<>>, context.collected_charts,
                context.collected_analyses, NoWrites)

\* One piece of markdown: a word, or a parenthesised link target "(target)".
\* the chart name is replaced wherever it stands, brackets or not
ReplaceRef_AnyName(markdown, filename, url) == StrReplace(markdown, <<filename>>, url)

\* markdown.replace(f"({filename})", f"({url})")
ReplaceRef(markdown, filename, url) ==
  StrReplace(markdown, <<"(", filename, ")">>, <<"(">> \o url \o <<")">>)

RECURSIVE ReplaceCharts(_, _)
\* for chart_info in collected_charts: final_markdown = final_markdown.replace(...)
ReplaceCharts(markdown, charts) ==
  IF charts = <<>> THEN markdown
  ELSE ReplaceCharts(ReplaceRef(markdown, Head(charts).filename, Head(charts).url),
                     Tail(charts))

\* the except branch leaves the job as it is
WriteReportFailed_NoJobUpdate(job_id, iterations, usage) ==
  [ret |-> [success |-> FALSE, error_message |-> "Error saving business report",
            iterations |-> iterations, usage |-> usage],
   updates |-> <<>>]

\* the except branch of write_business_report: the job is set to error
WriteReportFailed(job_id, iterations, usage) ==
  [ret |-> [success |-> FALSE, error_message |-> "Error saving business report",
            iterations |-> iterations, usage |-> usage],
   updates |-> << [job_id |-> job_id,
                   kwargs |-> [status |-> "error",
                               error_message |-> "Error saving business report"]] >>]

\* fault: where the try block raises: "none", "before_write" (the reports
\* directory or the file cannot be written), "after_write" (reading the job
\* raises).  job: the job record as get_business_report_job returns it.
ExecuteWriteReport(project_id, job_id, tool_input, context, fault, job) ==
  LET markdown_content == Get(tool_input, "markdown_content", <<>>)
      collected_charts == context.collected_charts
      collected_analyses == context.collected_analyses
      iterations == context.iterations
      input_tokens == context.input_tokens
      output_tokens == context.output_tokens
      report_type == context.report_type
      word_count == Len(markdown_content)
      final_markdown == ReplaceCharts(markdown_content, collected_charts)
      markdown_filename == job_id \o ".md"
      markdown_path == "business_reports/" \o markdown_filename
      markdown_url == "/api/v1/projects/" \o project_id
                      \o "/studio/business-reports/" \o markdown_filename
      preview_url == "/api/v1/projects/" \o project_id
                     \o "/studio/business-reports/" \o job_id \o "/preview"
      title == Get(job, "title", "Business Report")
      usage == [input_tokens |-> input_tokens, output_tokens |-> output_tokens]
      writes == IF fault = "before_write" THEN NoWrites
                ELSE WriteFile(markdown_path, final_markdown)
      failed == WriteReportFailed(job_id, iterations, usage)
  IN  IF fault = "none"
      THEN BizReturn(
             [success |-> TRUE, job_id |-> job_id, title |-> title,
              markdown_file |-> markdown_filename, markdown_url |-> markdown_url,
              preview_url |-> preview_url, charts |-> collected_charts,
              analyses_count |-> Len(collected_analyses),
              word_count |-> word_count, report_type |-> report_type,
              iterations |-> iterations, usage |-> usage],
             << [job_id |-> job_id,
                 kwargs |-> [status |-> "ready",
                             status_message |-> "Business report generated successfully!",
                             markdown_file |-> markdown_filename,
                             markdown_url |-> markdown_url,
                             preview_url |-> preview_url,
                             word_count |-> word_count,
                             iterations |-> iterations,
                             input_tokens |-> input_tokens,
                             output_tokens |-> output_tokens,
                             completed_at |-> Now]] >>,
             collected_charts, collected_analyses, writes)
      ELSE BizReturn(failed.ret, failed.updates, collected_charts,
                     collected_analyses, writes)

\* what execute_tool returns (result, is_termination), with the effects of the
\* handler it ran: job updates, files written, the context lists as it left them
BizExecuted(result, is_termination, h) ==
  [result |-> result, is_termination |-> is_termination, updates |-> h.updates,
   writes |-> h.writes, collected_charts |-> h.collected_charts,
   collected_analyses |-> h.collected_analyses,
   lists |-> [collected_charts |-> h.collected_charts,
              collected_analyses |-> h.collected_analyses]]

\* env: what the collaborators do during the call: [csv, source, fault, job]
BusinessExecuteTool(tool_name, tool_input, context, env) ==
  LET project_id == context.project_id
      job_id == context.job_id
  IN  CASE tool_name = "plan_business_report" ->
             LET h == ExecutePlanReport(project_id, job_id, tool_input, context)
             IN  BizExecuted([success |-> TRUE, message |-> h.ret], FALSE, h)
        [] tool_name = "analyze_csv_data" ->
             LET h == ExecuteAnalyzeCsv(project_id, job_id, tool_input, context, env.csv)
             IN  BizExecuted([success |-> TRUE, message |-> h.ret], FALSE, h)
        [] tool_name = "search_source_content" ->
             LET h == ExecuteSearchContent(project_id, job_id, tool_input, context,
                                           env.source)
             IN  BizExecuted([success |-> TRUE, message |-> h.ret], FALSE, h)
        [] tool_name = "write_business_report" ->
             LET h == ExecuteWriteReport(project_id, job_id, tool_input, context,
                                         env.fault, env.job)
             IN  BizExecuted(h.ret, TRUE, h)
        [] OTHER ->
             BizExecuted([success |-> FALSE, error |-> "Unknown tool: " \o tool_name],
                         FALSE,
                         BizReturn(None, <<>>, context.collected_charts,
                                   context.collected_analyses, NoWrites))

(***************************************************************************)
(* EmailToolExecutor                                                       *)
(***************************************************************************)
EMAIL_TERMINATION_TOOL == "write_email_code"

EmailTools == {"plan_email_template", "generate_email_image", "write_email_code"}

\* what a handler hands back to execute_tool: its return value, the job
\* updates it made, the files written
Handled(ret, updates, writes) ==
  [ret |-> ret, updates |-> updates, writes |-> writes, lists |-> EmptyDict]

\* a handler that was handed lists of the context: lists holds each of them
\* as the handler leaves it
Leaving(h, lists) == [h EXCEPT !.lists = lists]

\* the operand is extended in place (list += more)
ListPlus_InPlace(list, more) == [new |-> list \o more, old |-> list \o more]

\* list + more: a new list, the operand stays as it is
ListPlus(list, more) == [new |-> list \o more, old |-> list]

\* list.copy(): what is appended to the copy does not reach the list
ListCopy(list) == [new |-> list, old |-> list]

EmailHandlePlan(project_id, job_id, tool_input) ==
  LET template_name == Get(tool_input, "template_name", "Unnamed")
      template_type == Get(tool_input, "template_type", None)
      sections == Get(tool_input, "sections", <<>>)
  IN  Handled(
        [text |-> "Template plan saved successfully", template_name |-> template_name,
         template_type |-> template_type, sections |-> Len(sections)],
        << [job_id |-> job_id,
            kwargs |-> [template_name |-> template_name,
                        template_type |-> template_type,
                        color_scheme |-> Get(tool_input, "color_scheme", None),
                        sections |-> sections,
                        layout_notes |-> Get(tool_input, "layout_notes", None),
                        status_message |-> "Template planned, generating images..."]] >>,
        NoWrites)

\* the file name imagen_service gives the image it saves under the prefix
ImageFile(filename_prefix) == filename_prefix \o "_1.png"

\* imagen: what imagen_service.generate_images does about the image it is
\* asked for under filename_prefix: "raises" (or the directory cannot be
\* made), "fails" (success False), "empty" (no image), "image"
ImagenResult(imagen, filename_prefix) ==
  CASE imagen = "fails" -> [success |-> FALSE, error |-> "quota"]
    [] imagen = "empty" -> [success |-> TRUE, images |-> <<>>]
    [] imagen = "image" ->
         [success |-> TRUE, images |-> <<[filename |-> ImageFile(filename_prefix)]>>]

\* images are counted from zero
ImageIndex_FromZero(generated_images) == Len(generated_images)

\* image_index = len(generated_images) + 1
ImageIndex(generated_images) == Len(generated_images) + 1

\* the return value is the pair (result_message, image_info or None)
EmailHandleGenerateImage(project_id, job_id, tool_input, generated_images, imagen) ==
  LET section_name == Get(tool_input, "section_name", "unknown")
      first == [job_id |-> job_id,
                kwargs |-> [status_message |->
                  [text |-> "Generating image for", section_name |-> section_name]]]
      failed(error) ==
        Leaving(Handled([message |-> [text |-> "Error generating image for",
                                      section_name |-> section_name,
                                      error |-> error],
                         image_info |-> None],
                        <<first>>, NoWrites),
                [generated_images |-> generated_images])
      image_index == ImageIndex(generated_images)
      filename_prefix == job_id \o "_image_" \o ToString(image_index)
  IN  IF imagen = "raises" THEN failed("raised")
      ELSE
        LET image_result == ImagenResult(imagen, filename_prefix)
        IN  IF ~Get(image_result, "success", FALSE)
               \/ Get(image_result, "images", <<>>) = <<>>
            THEN failed(Get(image_result, "error", "Unknown error"))
            ELSE
              LET filename == image_result.images[1].filename
                  image_info ==
                    [section_name |-> section_name, filename |-> filename,
                     placeholder |-> <<"IMAGE_">> \o Str(image_index),
                     url |-> <<"/api/v1/projects/" \o project_id
                               \o "/studio/email-templates/", filename>>]
                  plus == ListPlus(generated_images, <<image_info>>)
                  updated_images == plus.new
              IN  Leaving(
                    Handled(
                      [message |-> [text |-> "Image generated successfully",
                                    section_name |-> section_name,
                                    placeholder |-> image_info.placeholder],
                       image_info |-> image_info],
                      << first,
                         [job_id |-> job_id,
                          kwargs |-> [images |-> updated_images]] >>,
                      WriteFile("email_templates/" \o filename, "<image>")),
                    [generated_images |-> plus.old])

\* the two quote characters
DQ == "\""
SQ == "'"

\* f'"{text}"', f"'{text}'"
Quoted(q, text) == <<q>> \o text \o <<q>>

\* the placeholder is replaced wherever it stands, quoted or not
ReplaceQuoted_Bare(html, placeholder, url) == StrReplace(html, placeholder, url)

\* html.replace(f'"{placeholder}"', f'"{url}"').replace(f"'{placeholder}'", f"'{url}'")
ReplaceQuoted(html, placeholder, url) ==
  StrReplace(StrReplace(html, Quoted(DQ, placeholder), Quoted(DQ, url)),
             Quoted(SQ, placeholder), Quoted(SQ, url))

RECURSIVE ReplaceImages(_, _)
\* for image_info in generated_images: the two replacements
ReplaceImages(html, images) ==
  IF images = <<>> THEN html
  ELSE ReplaceImages(ReplaceQuoted(html, Head(images).placeholder, Head(images).url),
                     Tail(images))

\* fault: where the try block raises: "none", "before_write", "after_write"
\* (reading the job raises).  job: what get_email_job returns, None included.
EmailHandleWriteCode(project_id, job_id, tool_input, generated_images, iterations, input_tokens, output_tokens, fault, job) ==
  LET html_code == Get(tool_input, "html_code", <<>>)
      subject_line == Get(tool_input, "subject_line_suggestion", "")
      preheader_text == Get(tool_input, "preheader_text", "")
      final_html == ReplaceImages(html_code, generated_images)
      html_filename == job_id \o ".html"
      html_url == "/api/v1/projects/" \o project_id
                  \o "/studio/email-templates/" \o html_filename
      preview_url == "/api/v1/projects/" \o project_id
                     \o "/studio/email-templates/" \o job_id \o "/preview"
      template_name == IF job # None THEN Get(job, "template_name", "Email Template")
                       ELSE "Email Template"
      usage == [input_tokens |-> input_tokens, output_tokens |-> output_tokens]
      writes == IF fault = "before_write" THEN NoWrites
                ELSE WriteFile("email_templates/" \o html_filename, final_html)
  IN  IF fault = "none"
      THEN Handled(
             [success |-> TRUE, job_id |-> job_id, template_name |-> template_name,
              html_file |-> html_filename, html_url |-> html_url,
              preview_url |-> preview_url, images |-> generated_images,
              subject_line |-> subject_line, preheader_text |-> preheader_text,
              iterations |-> iterations, usage |-> usage],
             << [job_id |-> job_id,
                 kwargs |-> [status |-> "ready",
                             status_message |-> "Email template generated successfully!",
                             html_file |-> html_filename, html_url |-> html_url,
                             preview_url |-> preview_url,
                             subject_line |-> subject_line,
                             preheader_text |-> preheader_text,
                             iterations |-> iterations,
                             input_tokens |-> input_tokens,
                             output_tokens |-> output_tokens,
                             completed_at |-> Now]] >>,
             writes)
      ELSE Handled(
             [success |-> FALSE, error_message |-> "Error saving HTML code",
              iterations |-> iterations, usage |-> usage],
             << [job_id |-> job_id,
                 kwargs |-> [status |-> "error",
                             error_message |-> "Error saving HTML code"]] >>,
             writes)

\* an unknown tool marks the job as failed
NoHandler_JobError(project_id, job_id) ==
  Handled(None,
          << [job_id |-> job_id,
              kwargs |-> [status |-> "error", error_message |-> "Unknown tool"]] >>,
          NoWrites)

\* the else branch of execute_tool: no handler runs
NoHandler(project_id, job_id) == Handled(None, <<>>, NoWrites)

\* the run is told to stop only when the tool succeeded
Executed_StopOnSuccess(result, is_termination, h) ==
  [result |-> result,
   is_termination |-> is_termination /\ Get(result, "success", FALSE),
   updates |-> h.updates, writes |-> h.writes, lists |-> h.lists]

\* what execute_tool returns (result, is_termination), with the effects of the
\* handler it ran: job updates, files written
Executed(result, is_termination, h) ==
  [result |-> result, is_termination |-> is_termination, updates |-> h.updates,
   writes |-> h.writes, lists |-> h.lists]

\* env: what the collaborators do during the call: [imagen, fault, job]
EmailExecuteTool(tool_name, tool_input, context, env) ==
  LET project_id == context.project_id
      job_id == context.job_id
  IN  CASE tool_name = "plan_email_template" ->
             LET h == EmailHandlePlan(project_id, job_id, tool_input)
             IN  Executed([success |-> TRUE, message |-> h.ret], FALSE, h)
        [] tool_name = "generate_email_image" ->
             LET generated_images == Get(context, "generated_images", <<>>)
                 h == EmailHandleGenerateImage(project_id, job_id, tool_input,
                                               generated_images, env.imagen)
             IN  Executed([success |-> TRUE, message |-> h.ret.message,
                           image_info |-> h.ret.image_info], FALSE, h)
        [] tool_name = "write_email_code" ->
             \* the handler only reads generated_images
             LET generated_images == Get(context, "generated_images", <<>>)
                 h == Leaving(
                        EmailHandleWriteCode(project_id, job_id, tool_input,
                          generated_images, Get(context, "iterations", 0),
                          Get(context, "input_tokens", 0),
                          Get(context, "output_tokens", 0), env.fault, env.job),
                        [generated_images |-> generated_images])
             IN  Executed(h.ret, TRUE, h)
        [] OTHER ->
             Executed([success |-> FALSE, message |-> "Unknown tool: " \o tool_name],
                      FALSE, NoHandler(project_id, job_id))

(***************************************************************************)
(* PresentationToolExecutor                                                *)
(***************************************************************************)
PRESENTATION_TERMINATION_TOOL == "finalize_presentation"

PresentationTools ==
  {"plan_presentation", "create_base_styles", "create_slide",
   "finalize_presentation"}

\* A file name is kept in its parts: "slide_", the digits, ".html".
BaseStyles == [stem |-> "base-styles", digits |-> <<>>, ext |-> ".css"]

\* f"{slide_number:02d}"
Pad2(n) == IF n < 10 THEN <<0, n>> ELSE Digits(n)

\* f"slide_{slide_number:02d}.html"
SlideFile(slide_number) ==
  [stem |-> "slide_", digits |-> Pad2(slide_number), ext |-> ".html"]

RECURSIVE DigitsStr(_)
DigitsStr(digits) ==
  IF digits = <<>> THEN "" ELSE ToString(Head(digits)) \o DigitsStr(Tail(digits))

\* the file name as one string
NameStr(f) == f.stem \o DigitsStr(f.digits) \o f.ext

\* x in list
InList(x, list) == \E i \in DOMAIN list : list[i] = x

\* f.startswith("slide_")
IsSlide(f) == f.stem = "slide_"

RECURSIVE DigitsLess(_, _)
\* a < b for two strings of digits: character by character, a proper prefix
\* first
DigitsLess(a, b) ==
  IF b = <<>> THEN FALSE
  ELSE IF a = <<>> THEN TRUE
  ELSE IF Head(a) # Head(b) THEN Head(a) < Head(b)
  ELSE DigitsLess(Tail(a), Tail(b))

\* a < b for two slide file names, as strings: "." sorts before every digit,
\* so the shorter of two names that agree on its digits comes first
NameLess(a, b) == DigitsLess(a.digits, b.digits)

\* sorted([f for f in created_files if f.startswith("slide_") and f.endswith(".html")])
SortedSlideFiles(created_files) ==
  SortSeq(SelectSeq(created_files, LAMBDA f : IsSlide(f) /\ f.ext = ".html"),
          NameLess)

\* the plan is reported back but never stored
PresHandlePlan_NotStored(project_id, job_id, tool_input) ==
  Handled([text |-> "Presentation plan saved successfully"], <<>>, NoWrites)

PresHandlePlan(project_id, job_id, tool_input) ==
  LET title == Get(tool_input, "presentation_title", "Untitled Presentation")
      slides == Get(tool_input, "slides", <<>>)
      presentation_type == Get(tool_input, "presentation_type", "business")
  IN  Handled(
        [text |-> "Presentation plan saved successfully", title |-> title,
         presentation_type |-> presentation_type, slides |-> Len(slides)],
        << [job_id |-> job_id,
            kwargs |-> [presentation_title |-> title,
                        presentation_type |-> presentation_type,
                        target_audience |-> Get(tool_input, "target_audience", None),
                        planned_slides |-> slides,
                        design_system |-> Get(tool_input, "design_system", None),
                        style_notes |-> Get(tool_input, "style_notes", None),
                        status_message |->
                          [text |-> "Planned presentation, creating base styles",
                           slides |-> Len(slides)]]] >>,
        NoWrites)

SlidesDir(job_id) == "presentations/" \o job_id \o "/slides/"

\* fault: "none", or "before_write": the directory or the file cannot be
\* written.  The return value is the pair (message, created files).
PresHandleCreateBaseStyles(project_id, job_id, tool_input, created_files, fault) ==
  LET content == Get(tool_input, "content", "")
      copy == ListCopy(created_files)
      updated_files == IF InList(BaseStyles, copy.new) THEN copy.new
                       ELSE Append(copy.new, BaseStyles)
  IN  IF fault = "none"
      THEN Leaving(
             Handled(
               [message |-> [text |-> "base-styles.css created successfully"],
                created_files |-> updated_files],
               << [job_id |-> job_id,
                   kwargs |-> [files |-> updated_files,
                               status_message |->
                                 "Base styles created, generating slides..."]] >>,
               WriteFile(SlidesDir(job_id) \o NameStr(BaseStyles), content)),
             [created_files |-> copy.old])
      ELSE Leaving(
             Handled(
               [message |-> [text |-> "Error creating base-styles.css"],
                created_files |-> created_files],
               <<>>, NoWrites),
             [created_files |-> created_files])

\* The return value is the triple (message, created files, slides info).
PresHandleCreateSlide(project_id, job_id, tool_input, created_files, slides_info, fault) ==
  LET slide_number == Get(tool_input, "slide_number", 1)
      slide_type == Get(tool_input, "slide_type", "bullet_points")
      content == Get(tool_input, "content", "")
      filename == SlideFile(slide_number)
      files_copy == ListCopy(created_files)
      updated_files == IF InList(filename, files_copy.new) THEN files_copy.new
                       ELSE Append(files_copy.new, filename)
      slides_copy == ListCopy(slides_info)
      updated_slides == Append(slides_copy.new,
                               [filename |-> filename, slide_number |-> slide_number,
                                slide_type |-> slide_type])
      slide_count == Len(SelectSeq(updated_files, IsSlide))
  IN  IF fault = "none"
      THEN Leaving(
             Handled(
               [message |-> [text |-> "Slide created successfully",
                             slide_number |-> slide_number, filename |-> filename,
                             slide_type |-> slide_type],
                created_files |-> updated_files, slides_info |-> updated_slides],
               << [job_id |-> job_id,
                   kwargs |-> [files |-> updated_files,
                               slides_created |-> slide_count,
                               status_message |->
                                 [text |-> "Created slide", filename |-> filename,
                                  slide_count |-> slide_count]]] >>,
               WriteFile(SlidesDir(job_id) \o NameStr(filename), content)),
             [created_files |-> files_copy.old, slides_info |-> slides_copy.old])
      ELSE Leaving(
             Handled(
               [message |-> [text |-> "Error creating slide",
                             slide_number |-> slide_number],
                created_files |-> created_files, slides_info |-> slides_info],
               <<>>, NoWrites),
             [created_files |-> created_files, slides_info |-> slides_info])

\* fault: "none", or "job_read": reading the job raises.  job: what
\* get_presentation_job returns, None included.
PresHandleFinalize(project_id, job_id, source_id, tool_input, created_files, slides_info, iterations, input_tokens, output_tokens, fault, job) ==
  LET summary == Get(tool_input, "summary", "")
      slides_created == Get(tool_input, "slides_created", <<>>)
      design_notes == Get(tool_input, "design_notes", "")
      title == IF job # None THEN Get(job, "presentation_title", "Presentation")
               ELSE "Presentation"
      slide_files == SortedSlideFiles(created_files)
      preview_url == "/api/v1/projects/" \o project_id
                     \o "/studio/presentations/" \o job_id \o "/preview"
      download_url == "/api/v1/projects/" \o project_id
                      \o "/studio/presentations/" \o job_id \o "/download"
      usage == [input_tokens |-> input_tokens, output_tokens |-> output_tokens]
  IN  IF fault = "none"
      THEN Handled(
             [success |-> TRUE, job_id |-> job_id, presentation_title |-> title,
              total_slides |-> Len(slide_files), slide_files |-> slide_files,
              files |-> created_files, summary |-> summary,
              preview_url |-> preview_url, download_url |-> download_url,
              iterations |-> iterations, usage |-> usage],
             << [job_id |-> job_id,
                 kwargs |-> [status |-> "ready",
                             status_message |->
                               "Presentation generated! Ready for export.",
                             files |-> created_files, slide_files |-> slide_files,
                             slides_metadata |-> slides_created,
                             summary |-> summary, design_notes |-> design_notes,
                             total_slides |-> Len(slide_files),
                             preview_url |-> preview_url,
                             download_url |-> download_url,
                             iterations |-> iterations,
                             input_tokens |-> input_tokens,
                             output_tokens |-> output_tokens,
                             completed_at |-> Now]] >>,
             NoWrites)
      ELSE Handled(
             [success |-> FALSE, error_message |-> "Error finalizing presentation",
              iterations |-> iterations, usage |-> usage],
             << [job_id |-> job_id,
                 kwargs |-> [status |-> "error",
                             error_message |-> "Error finalizing presentation"]] >>,
             NoWrites)

\* env: what the collaborators do during the call: [fault, job]
PresentationExecuteTool(tool_name, tool_input, context, env) ==
  LET project_id == context.project_id
      job_id == context.job_id
      created_files == Get(context, "created_files", <<>>)
      slides_info == Get(context, "slides_info", <<>>)
  IN  CASE tool_name = "plan_presentation" ->
             LET h == PresHandlePlan(project_id, job_id, tool_input)
             IN  Executed([success |-> TRUE, message |-> h.ret,
                           created_files |-> created_files,
                           slides_info |-> slides_info], FALSE, h)
        [] tool_name = "create_base_styles" ->
             LET h == PresHandleCreateBaseStyles(project_id, job_id, tool_input,
                                                 created_files, env.fault)
             IN  Executed([success |-> TRUE, message |-> h.ret.message,
                           created_files |-> h.ret.created_files,
                           slides_info |-> slides_info], FALSE, h)
        [] tool_name = "create_slide" ->
             LET h == PresHandleCreateSlide(project_id, job_id, tool_input,
                                            created_files, slides_info, env.fault)
             IN  Executed([success |-> TRUE, message |-> h.ret.message,
                           created_files |-> h.ret.created_files,
                           slides_info |-> h.ret.slides_info], FALSE, h)
        [] tool_name = "finalize_presentation" ->
             \* the handler only reads created_files and slides_info
             LET h == Leaving(
                        PresHandleFinalize(project_id, job_id,
                          Get(context, "source_id", ""), tool_input, created_files,
                          slides_info, Get(context, "iterations", 0),
                          Get(context, "input_tokens", 0),
                          Get(context, "output_tokens", 0), env.fault, env.job),
                        [created_files |-> created_files,
                         slides_info |-> slides_info])
             IN  Executed(h.ret, TRUE, h)
        [] OTHER ->
             Executed([success |-> FALSE, message |-> "Unknown tool: " \o tool_name,
                       created_files |-> created_files,
                       slides_info |-> slides_info],
                      FALSE, NoHandler(project_id, job_id))

(***************************************************************************)
(* State.                                                                  *)
(***************************************************************************)
VARIABLES
  \* the collaborators: the job records of each kind, the files written
  business_jobs, email_jobs, presentation_jobs, files,
  \* the model behind claude_service: the kinds of content block it sends
  \* and the token usages it reports
  llm,
  \* generate_business_report: where the run is, its arguments and locals
  pc, job_id, iteration, content_blocks, block_idx, tool_results, messages,
  total_input_tokens, total_output_tokens, collected_charts, collected_analyses,
  returned, saved_execution,
  \* what the run has done so far: the requests sent to the model, the usage
  \* of every response received, whether a response asked for the
  \* termination tool, the tool calls dispatched for the latest response
  requests, received, write_requested, dispatched,
  \* a caller of one executor: which executor it drives, the lists it keeps
  \* between calls and hands over in the context, its latest call
  executor, generated_images, created_files, slides_info, last_call,
  \* convert_to_excalidraw_elements: its argument, how many elements the loop
  \* has done, its local list, what it returned ([elements |-> the list])
  elements, elem_pos, excalidraw_elements, converted

agentVars ==
  <<pc, job_id, iteration, content_blocks, block_idx, tool_results, messages,
    total_input_tokens, total_output_tokens, collected_charts, collected_analyses,
    returned, saved_execution, requests, received, write_requested, dispatched>>

storeVars == <<business_jobs, email_jobs, presentation_jobs, files, llm>>

callerVars == <<executor, generated_images, created_files, slides_info, last_call>>

convertVars == <<elements, elem_pos, excalidraw_elements, converted>>

vars == <<storeVars, agentVars, callerVars, convertVars>>

(***************************************************************************)
(* BusinessReportAgentService.generate_business_report                     *)
(***************************************************************************)
MAX_ITERATIONS == 10

\* the loop runs once more
IterationRange_OneMore == 1..(MAX_ITERATIONS + 1)

\* the loop stops one iteration early
IterationRange_OneLess == 1..(MAX_ITERATIONS - 1)

\* range(1, self.MAX_ITERATIONS + 1)
IterationRange == 1..MAX_ITERATIONS

SOURCE_ID == "src1"

REPORT_TYPE == "executive_summary"

\* the token usages a response may report
Usages ==
  {[input_tokens |-> 3, output_tokens |-> 1],
   [input_tokens |-> 1, output_tokens |-> 2]}

\* a model that reports the same usage for every response
FixedUsages == {[input_tokens |-> 3, output_tokens |-> 1]}

\* a report that refers to one chart by its file name
SampleMarkdown == <<"Sales", "(", "c1.png", ")">>

\* an email with three quoted placeholders
SampleHtml ==
  <<"img">> \o Quoted(DQ, <<"IMAGE_">> \o Str(1))
            \o Quoted(SQ, <<"IMAGE_">> \o Str(2))
            \o Quoted(DQ, <<"IMAGE_">> \o Str(10))

\* the tools the model may name; the last is no tool of the executor
ToolNames == BizTools \cup {"export_to_pdf"}

\* the names a caller may pass: the executor's own, another executor's
\* termination tool, a name no executor knows
EmailToolNames == EmailTools \cup {"write_business_report", "send_email"}

PresentationToolNames == PresentationTools \cup {"write_email_code", "add_animation"}

\* every name a caller may pass to an executor
AllToolNames == ToolNames \cup EmailToolNames \cup PresentationToolNames

\* the model behind claude_service: the content blocks it may send, the usages
\* it may report, the tools it may ask an executor for, the report and the
\* email it may write
Model(kinds, usages, tools, markdown, html) ==
  [kinds |-> kinds, usages |-> usages, tools |-> tools, markdown |-> markdown,
   html |-> html]

\* the content blocks the model may send, before their ids
BlockKinds ==
  {[type |-> "text"]} \cup {[type |-> "tool_use", name |-> n] : n \in ToolNames}

\* the id the API gives the i-th block of the response to request r
ToolUseId(r, i) == "toolu_" \o ToString(r) \o "_" \o ToString(i)

\* a model that only writes text, names an unknown tool or writes the report
TerseBlockKinds ==
  {[type |-> "text"], [type |-> "tool_use", name |-> "export_to_pdf"],
   [type |-> "tool_use", name |-> "write_business_report"]}

\* the responses a model sending blocks of these kinds may give to request r
Responses(r, block_kinds) ==
  {[i \in 1..Len(kinds) |->
      IF kinds[i].type = "tool_use"
      THEN [type |-> "tool_use", name |-> kinds[i].name, id |-> ToolUseId(r, i)]
      ELSE kinds[i]] : kinds \in SeqsUpTo(block_kinds, MaxBlocks)}

\* the inputs the model may give a tool
ToolInputs(tool_name) ==
  CASE tool_name = "plan_business_report" ->
         {[title |-> "Q3 Review", sections |-> <<"Summary">>]}
    [] tool_name = "analyze_csv_data" ->
         {[csv_source_id |-> "csv1", analysis_query |-> "trend",
           section_context |-> "Sales"]}
    [] tool_name = "search_source_content" ->
         {[source_id |-> "doc1", search_query |-> "goals"]}
    [] tool_name = "write_business_report" ->
         {EmptyDict}
         \cup {[markdown_content |-> t, charts_included |-> <<"c1.png">>] :
                 t \in llm.markdown}
    [] OTHER -> {EmptyDict}

\* the chart files one csv analysis may return
ChartPathLists == {<<>>, <<"c1.png", "c2.png">>}

\* what csv_analyzer_agent.run may do; it succeeds only while fewer than
\* MaxAnalyses analyses are collected
CsvOutcomes(analyses) ==
  {[raises |-> TRUE],
   [raises |-> FALSE, result |-> [success |-> FALSE, error |-> "bad csv"]]}
  \cup
  (IF Len(analyses) < MaxAnalyses
   THEN {[raises |-> FALSE,
          result |-> [success |-> TRUE, summary |-> "up", image_paths |-> p]]
           : p \in ChartPathLists}
   ELSE {})

SourceStates ==
  {[state |-> "missing"], [state |-> "unreadable"], [length |-> 10],
   [length |-> SEARCH_MAX_LENGTH + 1]}

WriteFaults == {"none", "before_write", "after_write"}

\* what the collaborators may do during a call of tool_name
BizEnvs(tool_name, analyses, job) ==
  LET quiet == [csv |-> [raises |-> TRUE], source |-> [state |-> "missing"],
                fault |-> "none", job |-> job]
  IN  CASE tool_name = "analyze_csv_data" ->
             {[quiet EXCEPT !.csv = c] : c \in CsvOutcomes(analyses)}
        [] tool_name = "search_source_content" ->
             {[quiet EXCEPT !.source = s] : s \in SourceStates}
        [] tool_name = "write_business_report" ->
             {[quiet EXCEPT !.fault = f] : f \in WriteFaults}
        [] OTHER -> {quiet}

\* the total is overwritten, not added to
AddTokens_Assign(total, n) == n

\* total += n
AddTokens(total, n) == total + n

\* the context gets lists of its own, not the lists of the run
BuildContext_FreshLists(iter, charts, analyses, input_tokens, output_tokens) ==
  [project_id |-> PROJECT_ID, job_id |-> job_id, source_id |-> SOURCE_ID,
   collected_charts |-> <<>>, collected_analyses |-> <<>>,
   iterations |-> iter, input_tokens |-> input_tokens,
   output_tokens |-> output_tokens, report_type |-> REPORT_TYPE]

\* the context built for one tool call
BuildContext(iter, charts, analyses, input_tokens, output_tokens) ==
  [project_id |-> PROJECT_ID, job_id |-> job_id, source_id |-> SOURCE_ID,
   collected_charts |-> charts, collected_analyses |-> analyses,
   iterations |-> iter, input_tokens |-> input_tokens,
   output_tokens |-> output_tokens, report_type |-> REPORT_TYPE]

\* str(result), kept as the dict it prints
StrOf(result) == [str |-> result]

\* the entry loses the id of the block it answers
ToolResult_NoId(tool_id, result) ==
  [type |-> "tool_result", tool_use_id |-> "",
   content |-> Get(result, "message", StrOf(result))]

\* the tool_result entry of one tool call
ToolResult(tool_id, result) ==
  [type |-> "tool_result", tool_use_id |-> tool_id,
   content |-> Get(result, "message", StrOf(result))]

\* the result of a run that used up its iterations
ErrorResult(input_tokens, output_tokens) ==
  [success |-> FALSE,
   error_message |-> "Agent reached maximum iterations ("
                     \o ToString(MAX_ITERATIONS) \o ")",
   iterations |-> MAX_ITERATIONS,
   usage |-> [input_tokens |-> input_tokens, output_tokens |-> output_tokens]]

\* _save_execution
SaveExecution(result) ==
  saved_execution' =
    [agent_name |-> "business_report_agent", job_id |-> job_id,
     result |-> result]

\* the call, up to the loop: the job is set to processing, the first message built
Start ==
  /\ UNCHANGED <<callerVars, convertVars>>
  /\ pc = "idle"
  /\ business_jobs' = UpdateJob(business_jobs,
       [job_id |-> job_id,
        kwargs |-> [status |-> "processing",
                    status_message |-> "Starting business report generation...",
                    started_at |-> Now]])
  /\ messages' = <<[role |-> "user", content |-> "task"]>>
  /\ total_input_tokens' = 0
  /\ total_output_tokens' = 0
  /\ collected_charts' = <<>>
  /\ collected_analyses' = <<>>
  /\ iteration' = 1
  /\ pc' = IF 1 \in IterationRange THEN "request" ELSE "exhausted"
  /\ UNCHANGED <<email_jobs, presentation_jobs, files, llm, job_id,
                 content_blocks, block_idx, tool_results, returned,
                 saved_execution, requests, received, write_requested, dispatched>>

\* one request to the model: the usage is added up, the response appended
SendMessage ==
  /\ UNCHANGED <<callerVars, convertVars>>
  /\ pc = "request"
  /\ \E response \in Responses(iteration, llm.kinds), usage \in llm.usages :
       /\ total_input_tokens' = AddTokens(total_input_tokens, usage.input_tokens)
       /\ total_output_tokens' = AddTokens(total_output_tokens, usage.output_tokens)
       /\ content_blocks' = response
       /\ messages' = Append(messages, [role |-> "assistant", content |-> response])
       /\ received' = received (+) SetToBag({usage})
       /\ write_requested' =
            (write_requested \/
               \E i \in 1..Len(response) :
                  /\ response[i].type = "tool_use"
                  /\ response[i].name = BIZ_TERMINATION_TOOL)
  /\ requests' = requests + 1
  /\ tool_results' = <<>>
  /\ block_idx' = 0
  /\ dispatched' = <<>>
  /\ pc' = "dispatch"
  /\ UNCHANGED <<storeVars, job_id, iteration, collected_charts,
                 collected_analyses, returned, saved_execution>>

\* the next content block of the response: a tool_use block is executed, and
\* the run returns its result if it is the termination tool
ProcessBlock ==
  /\ UNCHANGED <<callerVars, convertVars>>
  /\ pc = "dispatch"
  /\ block_idx < Len(content_blocks)
  /\ LET i == block_idx + 1
         block == content_blocks[i]
     IN  IF block.type # "tool_use"
         THEN /\ block_idx' = i
              /\ UNCHANGED <<storeVars, pc, tool_results, messages,
                             collected_charts, collected_analyses, returned,
                             saved_execution, dispatched>>
         ELSE \E tool_input \in ToolInputs(block.name),
                 env \in BizEnvs(block.name, collected_analyses,
                                 business_jobs[job_id]) :
                LET context == BuildContext(iteration, collected_charts,
                                            collected_analyses, total_input_tokens,
                                            total_output_tokens)
                    call == BusinessExecuteTool(block.name, tool_input, context, env)
                IN  /\ business_jobs' = ApplyUpdates(business_jobs, call.updates)
                    /\ files' = Merge(files, call.writes)
                    /\ collected_charts' = call.collected_charts
                    /\ collected_analyses' = call.collected_analyses
                    /\ dispatched' = Append(dispatched,
                         [index |-> i, name |-> block.name, result |-> call.result,
                          image_paths |->
                            IF block.name = "analyze_csv_data" /\ ~env.csv.raises
                               /\ Get(env.csv.result, "success", FALSE)
                            THEN Get(env.csv.result, "image_paths", <<>>)
                            ELSE <<>>])
                    /\ block_idx' = i
                    /\ IF call.is_termination
                       THEN /\ SaveExecution(call.result)
                            /\ returned' = call.result
                            /\ pc' = "done"
                            /\ UNCHANGED tool_results
                       ELSE /\ tool_results' =
                                 Append(tool_results, ToolResult(block.id, call.result))
                            /\ UNCHANGED <<pc, returned, saved_execution>>
                    /\ UNCHANGED <<email_jobs, presentation_jobs, llm, messages>>
  /\ UNCHANGED <<job_id, iteration, content_blocks, total_input_tokens,
                 total_output_tokens, requests, received, write_requested>>

\* the end of the block loop: the tool results go back as one user message
AppendToolResults ==
  /\ UNCHANGED <<callerVars, convertVars>>
  /\ pc = "dispatch"
  /\ block_idx = Len(content_blocks)
  /\ messages' = IF tool_results # <<>>
                 THEN Append(messages, [role |-> "user", content |-> tool_results])
                 ELSE messages
  /\ pc' = "next"
  /\ UNCHANGED <<storeVars, job_id, iteration, content_blocks, block_idx,
                 tool_results, total_input_tokens, total_output_tokens,
                 collected_charts, collected_analyses, returned, saved_execution,
                 requests, received, write_requested, dispatched>>

\* the for loop moves on.  messages is only appended to and handed to the
\* collaborators, and content_blocks and tool_results are assigned anew before
\* they are read again: the model keeps the messages appended since the
\* latest loop step and drops the rest here.
NextIteration ==
  /\ UNCHANGED <<callerVars, convertVars>>
  /\ pc = "next"
  /\ IF iteration + 1 \in IterationRange
     THEN /\ iteration' = iteration + 1
          /\ pc' = "request"
     ELSE /\ pc' = "exhausted"
          /\ UNCHANGED iteration
  /\ messages' = <<>>
  /\ content_blocks' = <<>>
  /\ tool_results' = <<>>
  /\ block_idx' = 0
  /\ dispatched' = <<>>
  /\ UNCHANGED <<storeVars, job_id, total_input_tokens, total_output_tokens,
                 collected_charts, collected_analyses, returned, saved_execution,
                 requests, received, write_requested>>

\* the iterations are used up: the job is set to error, the error returned
MaxIterationsReached ==
  /\ UNCHANGED <<callerVars, convertVars>>
  /\ pc = "exhausted"
  /\ LET error_result == ErrorResult(total_input_tokens, total_output_tokens)
     IN  /\ business_jobs' = UpdateJob(business_jobs,
              [job_id |-> job_id,
               kwargs |-> [status |-> "error",
                           error_message |-> error_result.error_message]])
         /\ SaveExecution(error_result)
         /\ returned' = error_result
  /\ pc' = "done"
  /\ UNCHANGED <<email_jobs, presentation_jobs, files, llm, job_id, iteration,
                 content_blocks, block_idx, tool_results, messages,
                 total_input_tokens, total_output_tokens, collected_charts,
                 collected_analyses, requests, received, write_requested,
                 dispatched>>

\* the state after construction, before generate_business_report is called
\* no run has started, no executor has been called (the job records, the
\* files and the lists a business or email run collects apart)
IdleRun ==
  /\ presentation_jobs = [id \in JobIds |-> NewJob(id)]
  /\ pc = "idle"
  /\ iteration = 0
  /\ content_blocks = <<>>
  /\ block_idx = 0
  /\ tool_results = <<>>
  /\ messages = <<>>
  /\ total_input_tokens = 0
  /\ total_output_tokens = 0
  /\ returned = None
  /\ saved_execution = None
  /\ requests = 0
  /\ received = EmptyBag
  /\ write_requested = FALSE
  /\ dispatched = <<>>
  /\ created_files = <<>>
  /\ slides_info = <<>>
  /\ last_call = None
  /\ elem_pos = 0
  /\ excalidraw_elements = <<>>
  /\ converted = None

Idle ==
  /\ IdleRun
  /\ business_jobs = [id \in JobIds |-> NewJob(id)]
  /\ email_jobs = [id \in JobIds |-> NewJob(id)]
  /\ files = <<>>
  /\ collected_charts = <<>>
  /\ collected_analyses = <<>>
  /\ generated_images = <<>>

\* a model that may name every tool
Init ==
  /\ Idle
  /\ job_id = "j1"
  /\ executor = "business"
  /\ elements = <<>>
  /\ llm = Model(BlockKinds, FixedUsages, AllToolNames, {SampleMarkdown}, {SampleHtml})

\* a model whose responses differ in their token usage
TokenInit ==
  /\ Idle
  /\ job_id = "j1"
  /\ executor = "business"
  /\ elements = <<>>
  /\ llm = Model(TerseBlockKinds, Usages, AllToolNames, {SampleMarkdown}, {SampleHtml})

Next ==
  \/ Start
  \/ SendMessage
  \/ ProcessBlock
  \/ AppendToolResults
  \/ NextIteration
  \/ MaxIterationsReached

Spec == Init /\ [][Next]_vars

TokenSpec == TokenInit /\ [][Next]_vars

(***************************************************************************)
(* The executors called one tool at a time.  The caller hands over the     *)
(* lists it keeps in the context and takes from each result what the       *)
(* executor reports back.                                                  *)
(***************************************************************************)
Executors == {"business", "email", "presentation"}

TerminationTool(e) ==
  CASE e = "business" -> BIZ_TERMINATION_TOOL
    [] e = "email" -> EMAIL_TERMINATION_TOOL
    [] e = "presentation" -> PRESENTATION_TERMINATION_TOOL

\* the tool names each execute_tool recognises
KnownTools(e) ==
  CASE e = "business" -> BizTools
    [] e = "email" -> EmailTools
    [] e = "presentation" -> PresentationTools

EmailToolInputs(tool_name) ==
  CASE tool_name = "plan_email_template" ->
         {[template_name |-> "Promo", sections |-> <<"hero">>]}
    [] tool_name = "generate_email_image" ->
         {[section_name |-> "hero", image_prompt |-> "sunrise"]}
    [] tool_name = "write_email_code" ->
         {EmptyDict}
         \cup {[html_code |-> t, subject_line_suggestion |-> "Hello"] :
                 t \in llm.html}
    [] OTHER -> {EmptyDict}

\* what imagen_service may do; it saves an image only while fewer than
\* MaxImages are generated
ImagenOutcomes(images) ==
  {"raises", "fails", "empty"}
  \cup (IF Len(images) < MaxImages THEN {"image"} ELSE {})

EmailEnvs(tool_name, images, job) ==
  LET quiet == [imagen |-> "raises", fault |-> "none", job |-> job]
  IN  CASE tool_name = "generate_email_image" ->
             {[quiet EXCEPT !.imagen = o] : o \in ImagenOutcomes(images)}
        [] tool_name = "write_email_code" ->
             {[quiet EXCEPT !.fault = f] : f \in WriteFaults}
        [] OTHER -> {quiet}

\* the slide numbers the model may pass: one, two and three digits
SlideNumbers == {2, 20, 100}

PresentationToolInputs(tool_name) ==
  CASE tool_name = "plan_presentation" ->
         {[presentation_title |-> "Roadmap", slides |-> <<"intro">>]}
    [] tool_name = "create_base_styles" -> {[content |-> "css"]}
    [] tool_name = "create_slide" ->
         {[slide_number |-> n, slide_type |-> "title", content |-> "html"] :
            n \in SlideNumbers}
    [] tool_name = "finalize_presentation" ->
         {[summary |-> "done", slides_created |-> <<>>]}
    [] OTHER -> {EmptyDict}

\* a slide file is written only while fewer than MaxSlides slides are made
PresentationEnvs(tool_name, slides, job) ==
  LET quiet == [fault |-> "none", job |-> job]
  IN  CASE tool_name = "create_base_styles" ->
             {quiet, [quiet EXCEPT !.fault = "before_write"]}
        [] tool_name = "create_slide" ->
             {[quiet EXCEPT !.fault = "before_write"]}
             \cup (IF Len(slides) < MaxSlides THEN {quiet} ELSE {})
        [] tool_name = "finalize_presentation" ->
             {quiet, [quiet EXCEPT !.fault = "job_read"]}
        [] OTHER -> {quiet}

\* the run so far, as the caller reports it in the context
CallProgress == [iterations |-> 2, input_tokens |-> 6, output_tokens |-> 2]

EmailContext(images) ==
  [project_id |-> PROJECT_ID, job_id |-> job_id, generated_images |-> images,
   iterations |-> CallProgress.iterations,
   input_tokens |-> CallProgress.input_tokens,
   output_tokens |-> CallProgress.output_tokens]

PresentationContext(files_made, slides) ==
  [project_id |-> PROJECT_ID, job_id |-> job_id, source_id |-> SOURCE_ID,
   created_files |-> files_made, slides_info |-> slides,
   iterations |-> CallProgress.iterations,
   input_tokens |-> CallProgress.input_tokens,
   output_tokens |-> CallProgress.output_tokens]

\* the record of one call: what went in, what came back, what it did
\* the lists a context carries
ListKeys ==
  {"collected_charts", "collected_analyses", "generated_images", "created_files",
   "slides_info"}

\* the lists of the context as the call leaves them
ListsAfter(context, call) ==
  [k \in ListKeys \cap DOMAIN context |-> Get(call.lists, k, context[k])]

Call(tool_name, tool_input, context, env, call) ==
  [executor |-> executor, tool_name |-> tool_name, tool_input |-> tool_input,
   context |-> context, env |-> env, fault |-> env.fault, result |-> call.result,
   is_termination |-> call.is_termination, updates |-> call.updates,
   writes |-> call.writes, lists |-> ListsAfter(context, call)]

\* the caller makes no further call once a call has reported termination
Terminated == last_call # None /\ last_call.is_termination

CallBusinessTool ==
  /\ executor = "business"
  /\ ~Terminated
  /\ \E tool_name \in ToolNames \cap llm.tools :
       \E tool_input \in ToolInputs(tool_name),
          env \in BizEnvs(tool_name, collected_analyses, business_jobs[job_id]) :
         LET context == BuildContext(CallProgress.iterations, collected_charts,
                                     collected_analyses,
                                     CallProgress.input_tokens,
                                     CallProgress.output_tokens)
             call == BusinessExecuteTool(tool_name, tool_input, context, env)
         IN  /\ business_jobs' = ApplyUpdates(business_jobs, call.updates)
             /\ files' = Merge(files, call.writes)
             /\ collected_charts' = call.collected_charts
             /\ collected_analyses' = call.collected_analyses
             /\ last_call' = Call(tool_name, tool_input, context, env, call)
  /\ UNCHANGED <<email_jobs, presentation_jobs, llm, executor, generated_images,
                 created_files, slides_info, pc, job_id, iteration, content_blocks,
                 block_idx, tool_results, messages, total_input_tokens,
                 total_output_tokens, returned, saved_execution, requests,
                 received, write_requested, dispatched, convertVars>>

\* the caller keeps the image a generate_email_image call reports
AdoptImage(images, result) ==
  IF Get(result, "image_info", None) # None
  THEN Append(images, result.image_info)
  ELSE images

CallEmailTool ==
  /\ executor = "email"
  /\ ~Terminated
  /\ \E tool_name \in EmailToolNames \cap llm.tools :
       \E tool_input \in EmailToolInputs(tool_name),
          env \in EmailEnvs(tool_name, generated_images, email_jobs[job_id]) :
         LET context == EmailContext(generated_images)
             call == EmailExecuteTool(tool_name, tool_input, context, env)
         IN  /\ email_jobs' = ApplyUpdates(email_jobs, call.updates)
             /\ files' = Merge(files, call.writes)
             /\ generated_images' =
                  AdoptImage(ListsAfter(context, call).generated_images, call.result)
             /\ last_call' = Call(tool_name, tool_input, context, env, call)
  /\ UNCHANGED <<business_jobs, presentation_jobs, llm, executor, created_files,
                 slides_info, agentVars, convertVars>>

CallPresentationTool ==
  /\ executor = "presentation"
  /\ ~Terminated
  /\ \E tool_name \in PresentationToolNames \cap llm.tools :
       \E tool_input \in PresentationToolInputs(tool_name),
          env \in PresentationEnvs(tool_name, slides_info,
                                   presentation_jobs[job_id]) :
         LET context == PresentationContext(created_files, slides_info)
             call == PresentationExecuteTool(tool_name, tool_input, context, env)
         IN  /\ presentation_jobs' = ApplyUpdates(presentation_jobs, call.updates)
             /\ files' = Merge(files, call.writes)
             \* the caller takes the lists the result reports, if it reports any
             /\ created_files' = Get(call.result, "created_files",
                                     ListsAfter(context, call).created_files)
             /\ slides_info' = Get(call.result, "slides_info",
                                   ListsAfter(context, call).slides_info)
             /\ last_call' = Call(tool_name, tool_input, context, env, call)
  /\ UNCHANGED <<business_jobs, email_jobs, llm, executor, generated_images,
                 agentVars, convertVars>>

ExecInit ==
  /\ Idle
  /\ job_id \in JobIds
  /\ executor \in Executors
  /\ elements = <<>>
  /\ llm = Model(BlockKinds, FixedUsages, AllToolNames, {SampleMarkdown}, {SampleHtml})

ExecNext ==
  \/ CallBusinessTool
  \/ CallEmailTool
  \/ CallPresentationTool

ExecSpec == ExecInit /\ [][ExecNext]_vars

(***************************************************************************)
(* The two termination tools writing texts of every shape: the report and  *)
(* the email are joined from fragments, after a number of analyses and of  *)
(* generated images.                                                       *)
(***************************************************************************)
\* f"IMAGE_{k}"
Placeholder(k) == <<"IMAGE_">> \o Str(k)

\* fragments of an email: quoted placeholders, a placeholder without quotes,
\* one between unlike quotes, a quote
HtmlFragments ==
  {Quoted(DQ, Placeholder(1)), Quoted(SQ, Placeholder(2)),
   Quoted(DQ, Placeholder(10)), Placeholder(1), <<DQ>>,
   <<DQ>> \o Placeholder(1) \o <<SQ>>}

HtmlTexts == {Flatten(t) : t \in SeqsUpTo(HtmlFragments, MaxFragments)}

\* fragments of a report: a word, references to charts by file name, one by
\* its full URL, a file name without brackets
MarkdownFragments ==
  {<<"Sales">>, <<"(", "c1.png", ")">>, <<"(", "c2.png", ")">>,
   <<"(", "c3.png", ")">>, <<"c1.png">>,
   <<"(", "/api/v1/projects/" \o PROJECT_ID \o "/ai-images/", "c1.png", ")">>}

MarkdownTexts == {Flatten(t) : t \in SeqsUpTo(MarkdownFragments, MaxFragments)}

RECURSIVE EmailRun(_)
\* an email job after n images were generated: the list the caller keeps, the
\* job updates and the files of the n generate_email_image calls
EmailRun(n) ==
  IF n = 0 THEN [generated_images |-> <<>>, updates |-> <<>>, writes |-> NoWrites]
  ELSE LET prev == EmailRun(n - 1)
           h == EmailHandleGenerateImage(PROJECT_ID, "j1", [section_name |-> "hero"],
                                         prev.generated_images, "image")
       IN  [generated_images |-> Append(prev.generated_images, h.ret.image_info),
            updates |-> prev.updates \o h.updates,
            writes |-> Merge(prev.writes, h.writes)]

RECURSIVE BusinessRun(_)
\* a report job after n csv analyses that each drew the same two charts
BusinessRun(n) ==
  IF n = 0
  THEN [collected_charts |-> <<>>, collected_analyses |-> <<>>, updates |-> <<>>]
  ELSE LET prev == BusinessRun(n - 1)
           h == ExecuteAnalyzeCsv(
                  PROJECT_ID, "j1",
                  [csv_source_id |-> "csv1", analysis_query |-> "trend",
                   section_context |-> "Sales"],
                  [project_id |-> PROJECT_ID, job_id |-> "j1",
                   collected_charts |-> prev.collected_charts,
                   collected_analyses |-> prev.collected_analyses],
                  [raises |-> FALSE,
                   result |-> [success |-> TRUE, summary |-> "up",
                               image_paths |-> <<"c1.png", "c2.png">>]])
       IN  [collected_charts |-> h.collected_charts,
            collected_analyses |-> h.collected_analyses,
            updates |-> prev.updates \o h.updates]

\* the tools that write a text
WriteTools == {BIZ_TERMINATION_TOOL, EMAIL_TERMINATION_TOOL}

TextInit ==
  /\ IdleRun
  /\ job_id = "j1"
  /\ elements = <<>>
  /\ executor \in {"business", "email"}
  /\ \E n \in 0..MaxImages :
       LET run == EmailRun(IF executor = "email" THEN n ELSE 0)
       IN  /\ generated_images = run.generated_images
           /\ email_jobs = ApplyUpdates([id \in JobIds |-> NewJob(id)], run.updates)
           /\ files = run.writes
  /\ \E n \in 0..MaxAnalyses :
       LET run == BusinessRun(IF executor = "business" THEN n ELSE 0)
       IN  /\ collected_charts = run.collected_charts
           /\ collected_analyses = run.collected_analyses
           /\ business_jobs =
                ApplyUpdates([id \in JobIds |-> NewJob(id)], run.updates)
  /\ IF executor = "business"
     THEN \E markdown \in MarkdownTexts :
            llm = Model(BlockKinds, FixedUsages, WriteTools, {markdown}, {SampleHtml})
     ELSE \E html \in HtmlTexts :
            llm = Model(BlockKinds, FixedUsages, WriteTools, {SampleMarkdown}, {html})

TextNext ==
  \/ CallBusinessTool
  \/ CallEmailTool

TextSpec == TextInit /\ [][TextNext]_vars

(***************************************************************************)
(* excalidraw_utils: convert_to_excalidraw_elements                        *)
(***************************************************************************)
\* str(uuid.uuid4())[:8]: the first eight hex digits of a random uuid.  Of
\* the 16^8 prefixes the model keeps as many as one conversion can use, so
\* that a conversion can always draw a fresh one.
UuidPrefixes == {"0000000" \o ToString(n) : n \in 1..(2 * MaxElements)}

\* the simplified elements a wireframe may hold
ElementKinds ==
  {EmptyDict,
   [type |-> "rectangle", x |-> 10, y |-> 20, label |-> "Login"],
   [type |-> "ellipse", label |-> ""],
   [type |-> "text", text |-> "Title"],
   [type |-> "arrow", label |-> "next"]}

\* _build_text_properties
BuildTextProperties(elem) ==
  LET text_content == Get(elem, "text", "Text")
      font_size == Get(elem, "fontSize", 16)
  IN  [text |-> text_content, fontSize |-> font_size, fontFamily |-> 1,
       textAlign |-> "left", verticalAlign |-> "top", baseline |-> font_size,
       containerId |-> None, originalText |-> text_content]

\* _build_line_properties
BuildLineProperties(elem, elem_type) ==
  LET points == Get(elem, "points", <<<<0, 0>>, <<100, 0>>>>)
  IN  [points |-> points,
       lastCommittedPoint |-> IF points # <<>> THEN points[Len(points)]
                              ELSE <<0, 0>>,
       startBinding |-> None, endBinding |-> None, startArrowhead |-> None,
       endArrowhead |-> IF elem_type = "arrow" THEN [s |-> "arrow"] ELSE None]

\* _build_label_element, with the uuid prefix it draws
BuildLabelElement(elem, label, label_id) ==
  [id |-> label_id, type |-> "text", text |-> label, fontSize |-> 14,
   fontFamily |-> 1, textAlign |-> "center", verticalAlign |-> "middle",
   strokeColor |-> "#666666", backgroundColor |-> "transparent",
   fillStyle |-> "solid", strokeWidth |-> 1, roughness |-> 1, opacity |-> 100,
   version |-> 1, isDeleted |-> FALSE, groupIds |-> <<>>, boundElements |-> None,
   locked |-> FALSE, height |-> 18, baseline |-> 14, containerId |-> None,
   originalText |-> label]

\* the element the loop body builds for elem, with the uuid prefix it draws
BuildElement(elem, element_id) ==
  LET elem_type == Get(elem, "type", "rectangle")
      base == [id |-> element_id, type |-> elem_type, x |-> Get(elem, "x", 0),
               y |-> Get(elem, "y", 0),
               strokeColor |-> Get(elem, "strokeColor", "#000000"),
               backgroundColor |-> Get(elem, "backgroundColor", "transparent"),
               fillStyle |-> Get(elem, "fillStyle", "hachure"),
               strokeWidth |-> Get(elem, "strokeWidth", 1), roughness |-> 1,
               opacity |-> 100, version |-> 1, isDeleted |-> FALSE,
               groupIds |-> <<>>, boundElements |-> None, locked |-> FALSE]
  IN  IF elem_type = "text" THEN Merge(base, BuildTextProperties(elem))
      ELSE IF elem_type \in {"line", "arrow"}
      THEN Merge(base, BuildLineProperties(elem, elem_type))
      ELSE Merge(base, [width |-> Get(elem, "width", 100),
                        height |-> Get(elem, "height", 50)])

\* label and elem_type in ["rectangle", "ellipse", "diamond"]
HasLabel(elem) ==
  /\ "label" \in DOMAIN elem
  /\ elem.label # ""
  /\ Get(elem, "type", "rectangle") \in {"rectangle", "ellipse", "diamond"}

\* one turn of the loop: the element, then its label if it has one
ConvertElement ==
  /\ converted = None
  /\ elem_pos < Len(elements)
  /\ LET elem == elements[elem_pos + 1]
     IN  \E element_id \in UuidPrefixes :
           IF HasLabel(elem)
           THEN \E label_id \in UuidPrefixes :
                  excalidraw_elements' =
                    excalidraw_elements
                      \o <<BuildElement(elem, element_id),
                           BuildLabelElement(elem, elem.label, label_id)>>
           ELSE excalidraw_elements' =
                  Append(excalidraw_elements, BuildElement(elem, element_id))
  /\ elem_pos' = elem_pos + 1
  /\ UNCHANGED <<storeVars, agentVars, callerVars, elements, converted>>

\* return excalidraw_elements
ConvertReturn ==
  /\ converted = None
  /\ elem_pos = Len(elements)
  /\ converted' = [elements |-> excalidraw_elements]
  /\ UNCHANGED <<storeVars, agentVars, callerVars, elements, elem_pos,
                 excalidraw_elements>>

ConvertInit ==
  /\ Idle
  /\ job_id = "j1"
  /\ executor = "business"
  /\ llm = Model(BlockKinds, FixedUsages, AllToolNames, {SampleMarkdown}, {SampleHtml})
  /\ elements \in SeqsUpTo(ElementKinds, MaxElements)

ConvertNext ==
  \/ ConvertElement
  \/ ConvertReturn

ConvertSpec == ConvertInit /\ [][ConvertNext]_vars

(***************************************************************************)
(* Properties of generate_business_report.                                 *)
(***************************************************************************)
\* the indices of the tool_use blocks among the first k blocks, in order
ToolUseIndices(blocks, k) ==
  SelectSeq([i \in 1..k |-> i], LAMBDA i : blocks[i].type = "tool_use")

IsWriteBlock(block) ==
  block.type = "tool_use" /\ block.name = BIZ_TERMINATION_TOOL

\* whether one of the first k blocks asks for write_business_report
HasWrite(blocks, k) == \E i \in 1..k : IsWriteBlock(blocks[i])

\* the index of the first block that asks for write_business_report
FirstWrite(blocks) ==
  CHOOSE i \in 1..Len(blocks) :
    IsWriteBlock(blocks[i]) /\ ~HasWrite(blocks, i - 1)

\* the run returned the result of a write_business_report call
ReturnedByWrite ==
  /\ pc = "done"
  /\ dispatched # <<>>
  /\ dispatched[Len(dispatched)].name = BIZ_TERMINATION_TOOL

\* the steps one iteration takes at most: the request, the blocks, the
\* appending of the results, the loop step
IterationSteps == MaxBlocks + 3

\* the steps the run has left at most
Measure ==
  CASE pc = "idle" -> MAX_ITERATIONS * IterationSteps + 3
    [] pc = "request" -> (MAX_ITERATIONS - iteration + 1) * IterationSteps + 1
    [] pc = "dispatch" ->
         (MAX_ITERATIONS - iteration) * IterationSteps + 3
           + (Len(content_blocks) - block_idx)
    [] pc = "next" -> (MAX_ITERATIONS - iteration) * IterationSteps + 2
    [] pc = "exhausted" -> 1
    [] pc = "done" -> 0

\* a run that has not returned has a next step to take: the call can start,
\* the model has a response to give, the block at hand has an input and
\* collaborators to be run with, the results can be appended, the loop can
\* move on, the error can be returned
CanStep ==
  /\ pc = "idle" => ENABLED Start
  /\ pc = "request" => ENABLED SendMessage
  /\ pc = "dispatch" =>
       IF block_idx < Len(content_blocks)
       THEN LET block == content_blocks[block_idx + 1]
            IN  block.type = "tool_use" =>
                  /\ ToolInputs(block.name) # {}
                  /\ BizEnvs(block.name, collected_analyses,
                             business_jobs[job_id]) # {}
       ELSE ENABLED AppendToolResults
  /\ pc = "next" => ENABLED NextIteration
  /\ pc = "exhausted" => ENABLED MaxIterationsReached
  /\ pc \in {"idle", "request", "dispatch", "next", "exhausted", "done"}

\* C1: a run sends at most MAX_ITERATIONS = 10 requests to the model and
\* ends: every step keeps the number of requests within 10 and takes one
\* from the steps the run has left, a number that never falls below 0, and
\* a run that has not returned always has a next step to take.
C1_BoundedRun ==
  /\ [][/\ requests' <= 10
        /\ Measure' < Measure
        /\ Measure' >= 0]_vars
  /\ []CanStep

\* C1 witness: a run that returned after its tenth request
C1_Witness == pc = "done" /\ requests = 10 /\ iteration = 10

\* C2: the run returns either the result of the first dispatched
\* write_business_report call, in the iteration whose response holds it, or,
\* after exactly 10 requests none of which held write_business_report, the
\* error result with success = False, error_message "Agent reached maximum
\* iterations (10)" and iterations = 10; until it returns, a response that
\* holds write_business_report is the one being dispatched, with that block
\* still ahead.
C2_TwoExits ==
  /\ pc = "done" =>
       \/ /\ write_requested
          /\ ReturnedByWrite
          /\ requests = iteration
          /\ HasWrite(content_blocks, Len(content_blocks))
          /\ dispatched[Len(dispatched)].index = FirstWrite(content_blocks)
          /\ returned = dispatched[Len(dispatched)].result
          /\ \A j \in 1..(Len(dispatched) - 1) :
               dispatched[j].name # BIZ_TERMINATION_TOOL
       \/ /\ ~write_requested
          /\ ~ReturnedByWrite
          /\ requests = 10
          /\ returned.success = FALSE
          /\ returned.error_message = "Agent reached maximum iterations (10)"
          /\ returned.iterations = 10
          /\ DOMAIN returned = {"success", "error_message", "iterations", "usage"}
  /\ (pc # "done" /\ write_requested) =>
       /\ pc = "dispatch"
       /\ ~HasWrite(content_blocks, block_idx)
  /\ pc # "done" => returned = None

\* C2 witness: a run that used up its iterations
C2_Witness ==
  /\ pc = "done"
  /\ ~write_requested
  /\ returned.success = FALSE
  /\ requests = 10

\* C5: whenever the run has returned, the job's status is "ready" if the
\* returned result has success = True and "error" otherwise; "processing"
\* is never left behind.
C5_JobHoldsFinalState ==
  pc = "done" =>
    LET job == business_jobs[job_id]
    IN  /\ (job.status = "ready") <=> returned.success
        /\ (job.status = "error") <=> ~returned.success
        /\ job.status # "processing"

\* C5 witness: a run whose write_business_report call failed after the run
\* had set the job to processing
C5_Witness ==
  /\ ReturnedByWrite
  /\ ~returned.success
  /\ business_jobs[job_id].status = "error"
  /\ "started_at" \in DOMAIN business_jobs[job_id]

RECURSIVE SumOver(_, _, _)
\* the sum of field over the usages of the set, each counted as often as it
\* is in the bag
SumOver(usages, bag, field) ==
  IF usages = {} THEN 0
  ELSE LET u == CHOOSE x \in usages : TRUE
       IN  u[field] * CopiesIn(u, bag) + SumOver(usages \ {u}, bag, field)

\* the sum of field over every response received
Received(field) == SumOver(BagToSet(received), received, field)

\* C8: the usage in the returned result, and the tokens written to the job
\* record on success, are the sums of the input and output tokens of every
\* response received in the run, the response with the termination call
\* included, all 10 of them when the iterations are used up.
C8_TokensAddUp ==
  pc = "done" =>
    /\ BagCardinality(received) = requests
    /\ ~ReturnedByWrite => requests = 10
    /\ returned.usage = [input_tokens |-> Received("input_tokens"),
                         output_tokens |-> Received("output_tokens")]
    /\ returned.success =>
         /\ business_jobs[job_id].input_tokens = Received("input_tokens")
         /\ business_jobs[job_id].output_tokens = Received("output_tokens")

\* C8 witness: a successful run of three requests whose responses did not
\* all report the same usage
C8_Witness ==
  /\ pc = "done"
  /\ returned.success
  /\ requests = 3
  /\ Cardinality(BagToSet(received)) = 2

RECURSIVE Concat(_)
\* the sequences of a sequence, joined
Concat(seqs) == IF seqs = <<>> THEN <<>> ELSE Head(seqs) \o Concat(Tail(seqs))

\* the last n elements of s
LastN(s, n) == SubSeq(s, Len(s) - n + 1, Len(s))

\* the chart files the tool calls dispatched for the latest response got
\* from the csv analyzer
ChartsOfResponse == Concat([j \in DOMAIN dispatched |-> dispatched[j].image_paths])

\* C9: the tool_use blocks of a response are dispatched in their order of
\* appearance; the charts and analyses collected by the blocks before a
\* write_business_report block are in the result of the write; the blocks
\* after the first write_business_report block are not dispatched, and no
\* request is sent after it.
C9_DispatchOrder ==
  /\ pc \in {"dispatch", "next", "done"} =>
       /\ [j \in DOMAIN dispatched |-> dispatched[j].index]
            = ToolUseIndices(content_blocks, block_idx)
       /\ \A j \in DOMAIN dispatched :
            dispatched[j].name = content_blocks[dispatched[j].index].name
  /\ ReturnedByWrite =>
       /\ block_idx = FirstWrite(content_blocks)
       /\ ~ENABLED ProcessBlock
       /\ ~ENABLED SendMessage
       /\ returned.success =>
            /\ returned.charts = collected_charts
            /\ returned.analyses_count = Len(collected_analyses)
            /\ Len(collected_charts) >= Len(ChartsOfResponse)
            /\ LET mine == LastN(collected_charts, Len(ChartsOfResponse))
               IN  [k \in DOMAIN mine |-> mine[k].filename] = ChartsOfResponse

\* C9 witness: a response of an analysis that made charts, then the write,
\* whose result holds those charts
C9_Witness ==
  /\ ReturnedByWrite
  /\ returned.success
  /\ Len(dispatched) = 2
  /\ dispatched[1].name = "analyze_csv_data"
  /\ dispatched[1].image_paths # <<>>
  /\ Len(returned.charts) = Len(dispatched[1].image_paths)

\* the ids of the tool_use blocks among the first k blocks, in order
ToolUseIds(blocks, k) ==
  LET at == ToolUseIndices(blocks, k)
  IN  [j \in DOMAIN at |-> blocks[at[j]].id]

\* C10: in an iteration that does not end the run, every tool_use block of
\* the response, a block naming an unknown tool included, is answered by
\* exactly one tool_result entry with the block's id as tool_use_id, and the
\* entries are appended as one user message in the order of the blocks.
C10_EveryToolUseAnswered ==
  /\ (pc = "dispatch" /\ ~write_requested) =>
       [j \in DOMAIN tool_results |-> tool_results[j].tool_use_id]
         = ToolUseIds(content_blocks, block_idx)
  /\ pc = "next" =>
       LET ids == ToolUseIds(content_blocks, Len(content_blocks))
           last == messages[Len(messages)]
           before == messages[Len(messages) - 1]
       IN  IF ids = <<>>
           THEN last = [role |-> "assistant", content |-> content_blocks]
           ELSE /\ last.role = "user"
                /\ [j \in DOMAIN last.content |-> last.content[j].tool_use_id] = ids
                /\ \A j \in DOMAIN last.content : last.content[j].type = "tool_result"
                /\ before = [role |-> "assistant", content |-> content_blocks]

\* C10 witness: the answers to a response that names an unknown tool and
\* then a known one
C10_Witness ==
  /\ pc = "next"
  /\ Len(content_blocks) = 2
  /\ content_blocks[1].type = "tool_use"
  /\ content_blocks[1].name = "export_to_pdf"
  /\ content_blocks[2].type = "tool_use"
  /\ content_blocks[2].name = "plan_business_report"
  /\ Len(messages[Len(messages)].content) = 2

(***************************************************************************)
(* The executors, one call at a time (ExecSpec)                            *)
(***************************************************************************)
Called == last_call # None

\* the job updates of the latest call that went to the job the context names
UpdatesOfCall == SelectSeq(last_call.updates,
                           LAMBDA u : u.job_id = last_call.context.job_id)

\* C3: for each of the three executors, execute_tool reports is_termination
\* True exactly when the tool name is the executor's termination tool: False
\* for every other name, known or not, and True for the termination tool
\* whether its result says success True or False.
C3_TerminationFlag ==
  Called =>
    (last_call.is_termination
       <=> last_call.tool_name = TerminationTool(last_call.executor))

\* a termination tool that failed and still ended the run
C3_Witness ==
  /\ Called
  /\ last_call.tool_name = TerminationTool(last_call.executor)
  /\ last_call.result.success = FALSE
  /\ last_call.is_termination

\* C4 as stated: every call of execute_tool with a recognised tool name
\* updates the job record of the call's job at least once before it returns.
C4_EveryKnownToolUpdatesJob ==
  (Called /\ last_call.tool_name \in KnownTools(last_call.executor))
    => Len(UpdatesOfCall) >= 1

\* the calls that return without touching the job record: a search of the
\* source content, and a base-styles or slide file that could not be written
LeavesJobAlone ==
  \/ last_call.tool_name = "search_source_content"
  \/ /\ last_call.tool_name \in {"create_base_styles", "create_slide"}
     /\ last_call.fault = "before_write"

\* C4, amended: every call of execute_tool with a recognised tool name updates
\* the job record of the call's job at least once before it returns, except a
\* search_source_content call and a create_base_styles or create_slide call
\* whose file could not be written, which make no update at all.
C4_KnownToolUpdatesJobUnlessReadOnly ==
  (Called /\ last_call.tool_name \in KnownTools(last_call.executor))
    => IF LeavesJobAlone
       THEN last_call.updates = <<>>
       ELSE Len(UpdatesOfCall) >= 1 /\ Len(UpdatesOfCall) = Len(last_call.updates)

\* a recognised tool that updated its job, and nothing but its job
C4_Witness ==
  /\ Called
  /\ last_call.tool_name \in KnownTools(last_call.executor)
  /\ ~LeavesJobAlone
  /\ Len(UpdatesOfCall) >= 1

\* C6: the result of PresentationToolExecutor.execute_tool always has the
\* keys created_files and slides_info, whatever the tool and whether or not
\* it ends the run.
C6_ResultCarriesLists ==
  (Called /\ last_call.executor = "presentation")
    => {"created_files", "slides_info"} \subseteq DOMAIN last_call.result

\* C11: for any executor, a call of execute_tool with a tool name it does not
\* recognise returns success False and is_termination False, updates no job
\* record, writes no file and leaves every list of the context as it was.
C11_UnknownToolNoEffect ==
  [][(last_call' # None
      /\ last_call'.tool_name \notin KnownTools(last_call'.executor))
     => /\ last_call'.result.success = FALSE
        /\ last_call'.is_termination = FALSE
        /\ last_call'.updates = <<>>
        /\ last_call'.writes = NoWrites
        /\ \A k \in DOMAIN last_call'.lists :
             last_call'.lists[k] = last_call'.context[k]
        /\ UNCHANGED <<business_jobs, email_jobs, presentation_jobs, files,
                       collected_charts, collected_analyses, generated_images,
                       created_files, slides_info>>]_vars

\* an unknown tool called when the job and the lists already hold something
C11_Witness ==
  /\ Called
  /\ last_call.tool_name \notin KnownTools(last_call.executor)
  /\ \E k \in DOMAIN last_call.lists : last_call.lists[k] # <<>>
  /\ last_call.result.success = FALSE

\* the latest call was a generate_email_image call
GeneratedImage ==
  /\ Called
  /\ last_call.executor = "email"
  /\ last_call.tool_name = "generate_email_image"

\* C12: when the caller appends every image_info that is not None to
\* generated_images, the k-th successful generate_email_image call returns the
\* placeholder IMAGE_k, the placeholders in generated_images are pairwise
\* distinct, and a failed generation (the image service fails, returns no
\* image or raises) returns image_info None and uses up no index.
C12_PlaceholdersSequential ==
  /\ \A k \in DOMAIN generated_images :
       generated_images[k].placeholder = <<"IMAGE_">> \o Str(k)
  /\ \A i, j \in DOMAIN generated_images :
       i # j => generated_images[i].placeholder # generated_images[j].placeholder
  /\ GeneratedImage =>
       LET before == last_call.context.generated_images
           image_info == last_call.result.image_info
       IN  IF last_call.env.imagen = "image"
           THEN /\ image_info # None
                /\ image_info.placeholder = <<"IMAGE_">> \o Str(Len(before) + 1)
                /\ generated_images = Append(before, image_info)
           ELSE /\ image_info = None
                /\ generated_images = before

\* the second successful generation
C12_Witness ==
  /\ GeneratedImage
  /\ Len(generated_images) = 2
  /\ last_call.result.image_info # None
  /\ last_call.result.image_info.placeholder = <<"IMAGE_", "2">>

\* list starts with the items of prefix, in the same order
StartsWith(list, prefix) ==
  /\ Len(prefix) <= Len(list)
  /\ SubSeq(list, 1, Len(prefix)) = prefix

\* the kwargs of the last job update of the latest call
LastUpdate == last_call.updates[Len(last_call.updates)].kwargs

\* C13: the email and presentation executors never mutate the lists the
\* context hands them: generate_email_image and write_email_code leave
\* generated_images as it was, create_base_styles, create_slide and
\* finalize_presentation leave created_files and slides_info as they were; what
\* is added goes to a copy that is written to the job record and handed back
\* in the result (image_info, created_files, slides_info).
C13_ContextListsNotMutated ==
  (Called /\ last_call.executor \in {"email", "presentation"}) =>
    LET context == last_call.context
        result == last_call.result
    IN  /\ \A k \in DOMAIN last_call.lists : last_call.lists[k] = context[k]
        /\ (last_call.tool_name = "generate_email_image"
            /\ result.image_info # None)
             => LastUpdate.images = Append(context.generated_images, result.image_info)
        /\ (last_call.tool_name \in {"create_base_styles", "create_slide"}
            /\ last_call.fault = "none")
             => /\ StartsWith(result.created_files, context.created_files)
                /\ LastUpdate.files = result.created_files
        /\ (last_call.tool_name = "create_slide" /\ last_call.fault = "none")
             => /\ StartsWith(result.slides_info, context.slides_info)
                /\ Len(result.slides_info) = Len(context.slides_info) + 1

\* a slide added to lists that already hold a file and a slide
C13_Witness ==
  /\ Called
  /\ last_call.tool_name = "create_slide"
  /\ last_call.context.created_files # <<>>
  /\ last_call.context.slides_info # <<>>
  /\ Len(last_call.result.created_files) > Len(last_call.context.created_files)
  /\ last_call.lists.created_files = last_call.context.created_files

\* the latest call was a finalize_presentation call that succeeded
Finalized ==
  /\ Called
  /\ last_call.tool_name = "finalize_presentation"
  /\ last_call.result.success

RECURSIVE NumberOf(_)
\* the number a string of digits stands for
NumberOf(digits) ==
  IF digits = <<>> THEN 0
  ELSE 10 * NumberOf(SubSeq(digits, 1, Len(digits) - 1)) + digits[Len(digits)]

\* C16: the slide_files that finalize_presentation stores in the job record
\* and returns are exactly the slide_NN.html entries of created_files, in
\* ascending order of slide number whatever slide numbers were passed to
\* create_slide, and total_slides is the length of that list.
C16_SlideFilesInNumberOrder ==
  Finalized =>
    LET slide_files == last_call.result.slide_files
        created == last_call.context.created_files
    IN  /\ {slide_files[i] : i \in DOMAIN slide_files}
             = {created[i] : i \in DOMAIN created} \ {BaseStyles}
        /\ \A i, j \in DOMAIN slide_files :
             i < j => NumberOf(slide_files[i].digits) < NumberOf(slide_files[j].digits)
        /\ last_call.result.total_slides = Len(slide_files)
        /\ LastUpdate.slide_files = slide_files
        /\ LastUpdate.total_slides = Len(slide_files)

(***************************************************************************)
(* The texts the termination tools save (TextSpec)                         *)
(***************************************************************************)
\* the latest call was a write_email_code call that saved the email
SavedEmail ==
  /\ Called
  /\ last_call.executor = "email"
  /\ last_call.tool_name = "write_email_code"
  /\ "html_code" \in DOMAIN last_call.tool_input
  /\ last_call.writes # NoWrites

\* the text the latest call saved
SavedText == last_call.writes[CHOOSE path \in DOMAIN last_call.writes : TRUE]

\* the images whose placeholder stands at position i of s between two quotes
\* of the same kind
QuotedAt(s, i, images) ==
  {k \in DOMAIN images :
     LET p == images[k].placeholder
     IN  /\ i > 1
         /\ i + Len(p) <= Len(s)
         /\ s[i - 1] \in {DQ, SQ}
         /\ SubSeq(s, i, i + Len(p) - 1) = p
         /\ s[i + Len(p)] = s[i - 1]}

RECURSIVE QuotedReplaced(_, _, _)
\* s from position i on, with every placeholder that stands between two
\* quotes of the same kind replaced by the URL of its image
QuotedReplaced(s, i, images) ==
  IF i > Len(s) THEN <<>>
  ELSE LET hits == QuotedAt(s, i, images)
       IN  IF hits = {} THEN <<s[i]>> \o QuotedReplaced(s, i + 1, images)
           ELSE LET k == CHOOSE k \in hits : TRUE
                IN  images[k].url
                      \o QuotedReplaced(s, i + Len(images[k].placeholder), images)

SharesQuote(s, images) ==
  \E i \in DOMAIN s, k \in DOMAIN images :
    /\ k \in QuotedAt(s, i, images)
    /\ k \in QuotedAt(s, i + Len(images[k].placeholder) + 1, images)

SavedReport ==
  /\ Called
  /\ last_call.executor = "business"
  /\ last_call.tool_name = "write_business_report"
  /\ "markdown_content" \in DOMAIN last_call.tool_input
  /\ last_call.writes # NoWrites

\* '/api/v1/projects/{project_id}/ai-images/', the part of a chart's URL
\* before the file name
ChartUrlPrefix == "/api/v1/projects/" \o PROJECT_ID \o "/ai-images/"

\* the file names of the charts
ChartNames(charts) == {charts[k].filename : k \in DOMAIN charts}

RECURSIVE RefsLinked(_, _, _)
\* s from position i on, with every '(filename)' of a chart in names turned
\* into '(url)'
RefsLinked(s, i, names) ==
  IF i > Len(s) THEN <<>>
  ELSE IF i + 2 <= Len(s) /\ s[i] = "(" /\ s[i + 1] \in names /\ s[i + 2] = ")"
  THEN <<"(", ChartUrlPrefix, s[i + 1], ")">> \o RefsLinked(s, i + 3, names)
  ELSE <<s[i]>> \o RefsLinked(s, i + 1, names)

\* C15: in the saved markdown every '(filename)' reference to a chart of
\* collected_charts has become '(url)', url being
\* '/api/v1/projects/{project_id}/ai-images/{filename}', and the substitution
\* is idempotent: a chart listed more than once, or markdown that already
\* holds the full URL, does not get the URL prefix twice.
C15_ChartRefsLinkedOnce ==
  SavedReport =>
    LET markdown == last_call.tool_input.markdown_content
        charts == last_call.context.collected_charts
    IN  /\ SavedText = RefsLinked(markdown, 1, ChartNames(charts))
        /\ ReplaceCharts(SavedText, charts) = SavedText
        /\ \A i \in DOMAIN SavedText :
             SavedText[i] = ChartUrlPrefix
               => /\ i < Len(SavedText)
                  /\ SavedText[i + 1] # ChartUrlPrefix
                  /\ i > 1 /\ SavedText[i - 1] = "("

\* every chart is listed twice, the report names one by its file and holds
\* the full URL of it as well
C15_Witness ==
  /\ SavedReport
  /\ Len(last_call.context.collected_charts) = 4
  /\ last_call.tool_input.markdown_content
       = <<"(", "c1.png", ")", "(", ChartUrlPrefix, "c1.png", ")", "c1.png">>
  /\ SavedText
       = <<"(", ChartUrlPrefix, "c1.png", ")", "(", ChartUrlPrefix, "c1.png", ")",
           "c1.png">>

(***************************************************************************)
(* convert_to_excalidraw_elements (ConvertSpec)                            *)
(***************************************************************************)
\* C7: in the list convert_to_excalidraw_elements returns, the id fields of
\* all elements (shapes, texts, lines and the label texts added for labelled
\* shapes) are pairwise distinct.
C7_IdsDistinct ==
  converted # None =>
    \A i, j \in DOMAIN converted.elements :
      i # j => converted.elements[i].id # converted.elements[j].id

====
